---------------------------- MODULE Spec2Model ----------------------------
(***************************************************************************)
(* Model of src/data_generation.py: MexicoEcommerceGenerator and main().   *)
(*                                                                         *)
(* Conventions of the model                                                *)
(*   - a datetime is its day ordinal, day 0 = 2025-01-01; the time of day  *)
(*     is dropped: every date arithmetic of the program adds or subtracts  *)
(*     whole days, so all dates of one record share the time of day;       *)
(*   - money is in centavos, weights in 1/100 kg, ratios in 1/10000;       *)
(*   - float draws are discretised: the normal jitter and the season       *)
(*     factor are in tenths, the cost noise in percent;                    *)
(*   - NaN is the value NaN below, outside every field's clean range;      *)
(*   - a DataFrame is a sequence of records; pandas label/position idx of  *)
(*     the RangeIndex is the 0-based row number, row idx is df[idx + 1].   *)
(***************************************************************************)
EXTENDS Integers, Sequences, FiniteSets, TLC

VARIABLES
    pc,               \* position of the run in main()/generate_dataset
    corrida,          \* 1 or 2: which execution of the program this is
    seed,             \* self.seed of the current execution
    n_records,        \* self.n_records
    include_errors,   \* argument of generate_dataset
    hoy,              \* wall clock ('now') of the current execution, day ordinal
    i,                \* loop index of generate_dataset
    datos,            \* list of registros built by the loop
    df,               \* the DataFrame created from datos (line 603)
    df_con_errores,   \* the copy the injector works on
    indices_errores,  \* selected row labels, in processing order
    pos,              \* position of the injector loop in indices_errores
    tipos,            \* tipo_error drawn at each finished loop position
    dataset,          \* what generate_dataset returned to main
    archivo,          \* rows written to data/raw/dataset_raw.csv
    muestra,          \* rows (by label) written to dataset_sample_1000.csv
    muestra_escrita,  \* whether the sample file was written
    np_log,           \* numpy draws consumed per record by this execution
    en_fase,          \* numpy stream still aligned with the previous execution's
    previa            \* seed, arguments, draws and result of the previous execution

vars == <<pc, corrida, seed, n_records, include_errors, hoy, i, datos, df,
          df_con_errores, indices_errores, pos, tipos, dataset, archivo,
          muestra, muestra_escrita, np_log, en_fase, previa>>

----------------------------------------------------------------------------
(* Reference tables: _setup_mexico_data                                     *)

estados_mexico ==
    << "Aguascalientes", "Baja California", "Baja California Sur",
       "Campeche", "Chiapas", "Chihuahua", "Coahuila", "Colima",
       "Ciudad de México", "Durango", "Guanajuato", "Guerrero",
       "Hidalgo", "Jalisco", "México", "Michoacán", "Morelos",
       "Nayarit", "Nuevo León", "Oaxaca", "Puebla", "Querétaro",
       "Quintana Roo", "San Luis Potosí", "Sinaloa", "Sonora",
       "Tabasco", "Tamaulipas", "Tlaxcala", "Veracruz", "Yucatán",
       "Zacatecas" >>

\* The dict keeps insertion order: the lookup walks the regions in this order.
nombres_regiones == << "Centro", "Norte", "Occidente", "Sur", "Península" >>

regiones ==
    [ r \in {nombres_regiones[k] : k \in 1..Len(nombres_regiones)} |->
        CASE r = "Centro" ->
               << "Ciudad de México", "México", "Puebla", "Morelos",
                  "Tlaxcala", "Hidalgo", "Querétaro" >>
          [] r = "Norte" ->
               << "Nuevo León", "Chihuahua", "Coahuila", "Sonora",
                  "Tamaulipas", "Baja California", "Baja California Sur" >>
          [] r = "Occidente" ->
               << "Jalisco", "Michoacán", "Guanajuato", "Aguascalientes",
                  "Colima", "Nayarit", "Sinaloa" >>
          [] r = "Sur" ->
               << "Guerrero", "Oaxaca", "Chiapas", "Veracruz", "Tabasco" >>
          [] r = "Península" ->
               << "Yucatán", "Quintana Roo", "Campeche" >> ]

nombres_transportistas ==
    << "Estafeta", "DHL", "FedEx", "Correos de México", "UPS", "Redpack",
       "Paquetexpress" >>

\* costo_base of each carrier, MXN
transportistas ==
    [ t \in {nombres_transportistas[k] : k \in 1..Len(nombres_transportistas)} |->
        CASE t = "Estafeta" -> [costo_base |-> 120]
          [] t = "DHL" -> [costo_base |-> 180]
          [] t = "FedEx" -> [costo_base |-> 160]
          [] t = "Correos de México" -> [costo_base |-> 80]
          [] t = "UPS" -> [costo_base |-> 170]
          [] t = "Redpack" -> [costo_base |-> 100]
          [] t = "Paquetexpress" -> [costo_base |-> 90] ]

nombres_categorias ==
    << "Moda y Accesorios", "Electrónicos", "Hogar y Jardín",
       "Salud y Belleza", "Deportes", "Libros y Educación",
       "Juguetes y Bebés" >>

\* price band of each category, MXN
categorias ==
    [ c \in {nombres_categorias[k] : k \in 1..Len(nombres_categorias)} |->
        CASE c = "Moda y Accesorios" -> [precio_min |-> 150, precio_max |-> 5000]
          [] c = "Electrónicos" -> [precio_min |-> 500, precio_max |-> 35000]
          [] c = "Hogar y Jardín" -> [precio_min |-> 200, precio_max |-> 15000]
          [] c = "Salud y Belleza" -> [precio_min |-> 100, precio_max |-> 3000]
          [] c = "Deportes" -> [precio_min |-> 300, precio_max |-> 8000]
          [] c = "Libros y Educación" -> [precio_min |-> 50, precio_max |-> 2000]
          [] c = "Juguetes y Bebés" -> [precio_min |-> 200, precio_max |-> 4000] ]

metodos_pago ==
    << "Tarjeta de Débito", "Tarjeta de Crédito", "Efectivo (OXXO)", "PayPal",
       "Transferencia" >>

canales_venta ==
    << "Mercado Libre", "Amazon México", "Liverpool", "Coppel", "Walmart",
       "Sitio Web Propio" >>

tiempos_base ==
    [ t \in {nombres_transportistas[k] : k \in 1..Len(nombres_transportistas)} |->
        CASE t = "Estafeta" -> [local |-> 2, regional |-> 4, nacional |-> 6]
          [] t = "DHL" -> [local |-> 1, regional |-> 2, nacional |-> 3]
          [] t = "FedEx" -> [local |-> 2, regional |-> 3, nacional |-> 4]
          [] t = "Correos de México" -> [local |-> 5, regional |-> 8, nacional |-> 12]
          [] t = "UPS" -> [local |-> 1, regional |-> 2, nacional |-> 4]
          [] t = "Redpack" -> [local |-> 3, regional |-> 5, nacional |-> 7]
          [] t = "Paquetexpress" -> [local |-> 3, regional |-> 5, nacional |-> 8] ]

grupos_edad == << "18-24", "25-34", "35-44", "45-54", "55+" >>

problemas ==
    << "Ninguno", "Retraso", "Paquete dañado", "Extraviado",
       "Entregado en lugar equivocado" >>

msi_opciones == << 1, 3, 6, 12, 18 >>

dias_procesamiento_opciones == << 1, 2, 3 >>

Rango(s) == { s[k] : k \in 1..Len(s) }


----------------------------------------------------------------------------
(* Arithmetic helpers                                                       *)

NaN == 0 - 1

Max(a, b) == IF a >= b THEN a ELSE b

Min(a, b) == IF a <= b THEN a ELSE b

\* Python round(): nearest, ties to the even neighbour. num/den with den > 0.
RoundHalfEven(num, den) ==
    LET q == num \div den
        r == num % den
    IN  IF 2 * r < den THEN q
        ELSE IF 2 * r > den THEN q + 1
        ELSE IF q % 2 = 0 THEN q ELSE q + 1

\* f"{i:05d}"
Pad5(n) ==
    IF n < 10 THEN "0000" \o ToString(n)
    ELSE IF n < 100 THEN "000" \o ToString(n)
    ELSE IF n < 1000 THEN "00" \o ToString(n)
    ELSE IF n < 10000 THEN "0" \o ToString(n)
    ELSE ToString(n)

\* Calendar of a day ordinal (day 0 = 2025-01-01; 2025..2027 have 365 days).
DiasAcumulados == << 0, 31, 59, 90, 120, 151, 181, 212, 243, 273, 304, 334, 365 >>

Mes(fecha) ==
    LET doy == fecha % 365
    IN  CHOOSE m \in 1..12 : DiasAcumulados[m] <= doy /\ doy < DiasAcumulados[m + 1]

Dia(fecha) == (fecha % 365) - DiasAcumulados[Mes(fecha)] + 1

----------------------------------------------------------------------------
(* Pure helpers of the generator                                            *)

\* _get_region_from_estado: first region (in dict order) listing the state,
\* 'Centro' when no region lists it.
GetRegionFromEstado(estado) ==
    LET hits == { k \in 1..Len(nombres_regiones) :
                    estado \in Rango(regiones[nombres_regiones[k]]) }
    IN  IF hits = {} THEN "Centro"
        ELSE nombres_regiones[CHOOSE k \in hits : \A j \in hits : k <= j]

\* lines 173-178: distance class inside _calcular_tiempo_entrega
TipoEnvio(estado_origen, estado_destino) ==
    IF estado_origen = estado_destino THEN "local"
    ELSE IF GetRegionFromEstado(estado_origen) = GetRegionFromEstado(estado_destino)
         THEN "regional"
    ELSE "nacional"

\* _calcular_tiempo_entrega(transportista, estado_origen, estado_destino,
\* es_temporada_alta); variabilidad and impacto are its two draws, in tenths
\* (impacto_temporada is 10, i.e. 1.0, when es_temporada_alta is false).
CalcularTiempoEntrega(transportista, origen, destino, alta, variabilidad, impacto) ==
    LET tipo_envio == TipoEnvio(origen, destino)
        tiempo_base == tiempos_base[transportista][tipo_envio]
        impacto_temporada == IF alta THEN impacto ELSE 10
    IN  Max(1, RoundHalfEven(tiempo_base * impacto_temporada + variabilidad, 10))

\* _es_temporada_alta
EsTemporadaAlta(fecha) ==
    LET mes == Mes(fecha)
    IN  IF mes = 5 \/ mes = 11 \/ mes = 12 THEN TRUE
        ELSE IF mes = 4 /\ Dia(fecha) = 30 THEN TRUE
        ELSE IF mes = 2 /\ Dia(fecha) = 14 THEN TRUE
        ELSE FALSE

\* _generar_fechas_realistas with the delivery counted from the order date
GenerarFechasRealistas_DesdePedido(transportista, estado_destino, d) ==
    LET fecha_pedido == d.f_fecha
        dias_procesamiento == d.proc
        fecha_envio == fecha_pedido + dias_procesamiento
        es_temporada_alta == EsTemporadaAlta(fecha_pedido)
        estado_origen == "Ciudad de México"
        dias_entrega == CalcularTiempoEntrega(transportista, estado_origen,
                            estado_destino, es_temporada_alta,
                            d.variabilidad, d.impacto) + d.ajuste
        fecha_entrega == fecha_pedido + Max(1, dias_entrega)
    IN  [ order_date |-> fecha_pedido,
          shipped_date |-> fecha_envio,
          delivered_date |-> fecha_entrega,
          processing_days |-> dias_procesamiento,
          delivery_days |-> dias_entrega ]

\* _generar_fechas_realistas; d carries the draws of one record
GenerarFechasRealistas(transportista, estado_destino, d) ==
    LET fecha_pedido == d.f_fecha
        dias_procesamiento == d.proc
        fecha_envio == fecha_pedido + dias_procesamiento
        es_temporada_alta == EsTemporadaAlta(fecha_pedido)
        estado_origen == "Ciudad de México"
        dias_entrega == CalcularTiempoEntrega(transportista, estado_origen,
                            estado_destino, es_temporada_alta,
                            d.variabilidad, d.impacto) + d.ajuste
        fecha_entrega == fecha_envio + Max(1, dias_entrega)
    IN  [ order_date |-> fecha_pedido,
          shipped_date |-> fecha_envio,
          delivered_date |-> fecha_entrega,
          processing_days |-> dias_procesamiento,
          delivery_days |-> dias_entrega ]

\* weight range of a category, 1/100 kg (lines 261-268)
RangoPeso(categoria) ==
    IF categoria = "Electrónicos" THEN << 50, 500 >>
    ELSE IF categoria = "Moda y Accesorios" THEN << 10, 200 >>
    ELSE IF categoria = "Hogar y Jardín" THEN << 100, 1500 >>
    ELSE << 20, 300 >>

\* _generar_datos_producto; u_precio, u_peso in percent of the range, u_cant the
\* uniform draw in 1/100, r_cant the offset 0..4 of the randint that follows
GenerarDatosProducto(categoria, d) ==
    LET cat_info == categorias[categoria]
        precio == cat_info.precio_min * 100
                    + (cat_info.precio_max - cat_info.precio_min) * d.u_precio
        rp == RangoPeso(categoria)
        peso == RoundHalfEven(rp[1] * 100 + (rp[2] - rp[1]) * d.u_peso, 100)
        cantidad == IF d.u_cant < 95 THEN 1 + d.r_cant ELSE 6 + d.r_cant
    IN  [ product_price_mxn |-> precio,
          product_weight_kg |-> peso,
          quantity |-> cantidad ]

\* _generar_datos_cliente; d.lealtad is the exponential draw in tenths of a month
GenerarDatosCliente(d) ==
    [ customer_age_group |-> d.edad,
      customer_loyalty_months |-> Min(d.lealtad \div 10, 60),
      purchase_frequency |-> d.frecuencia ]

\* _generar_datos_pago with the installments branch taken for the credit card
\* whatever the transaction status
GenerarDatosPago_SoloMetodo(d) ==
    LET metodo == d.metodo
        status == IF d.u_status1 < 67 THEN "Autorizada"
                  ELSE IF d.u_status2 < 80 THEN "En revisión"
                  ELSE "Rechazada"
        msi == IF metodo = "Tarjeta de Crédito" THEN d.msi ELSE 1
    IN  [ payment_method |-> metodo,
          transaction_status |-> status,
          payment_installments |-> msi ]

\* _generar_datos_pago; u_status1, u_status2 are the uniform draws in 1/100 and
\* d.msi is what the choice of line 319 returns when that line is reached
GenerarDatosPago(d) ==
    LET metodo == d.metodo
        status == IF d.u_status1 < 67 THEN "Autorizada"
                  ELSE IF d.u_status2 < 80 THEN "En revisión"
                  ELSE "Rechazada"
        msi == IF metodo = "Tarjeta de Crédito" /\ status = "Autorizada"
               THEN d.msi ELSE 1
    IN  [ payment_method |-> metodo,
          transaction_status |-> status,
          payment_installments |-> msi ]

\* _calcular_costo_envio, centavos; variacion in percent
CalcularCostoEnvio(transportista, peso, distancia, es_express, variacion) ==
    LET costo_base == transportistas[transportista].costo_base * 100
        costo_peso == peso * 15
        ajuste_distancia == IF distancia = "local" THEN 10
                            ELSE IF distancia = "regional" THEN 15
                            ELSE 20
        ajuste_express == IF es_express THEN 2 ELSE 1
        costo_final == (costo_base + costo_peso) * ajuste_distancia * ajuste_express
    IN  RoundHalfEven(costo_final * variacion, 1000)

\* lines 503-517: base rating as a step function of the delay
CalificacionBase(diferencia_dias) ==
    IF diferencia_dias <= 0 THEN 5
    ELSE IF diferencia_dias <= 2 THEN 4
    ELSE IF diferencia_dias <= 5 THEN 3
    ELSE IF diferencia_dias <= 10 THEN 2
    ELSE 1

\* line 520 without the upper clamp
Calificacion_SinTope(diferencia_dias, jitter) ==
    Max(1, CalificacionBase(diferencia_dias) + jitter)

\* line 520
Calificacion(diferencia_dias, jitter) ==
    Max(1, Min(5, CalificacionBase(diferencia_dias) + jitter))

\* line 549 with a strict comparison
CumplioPromesa_Estricto(diferencia_dias) == IF diferencia_dias < 0 THEN 1 ELSE 0

\* line 549
CumplioPromesa(diferencia_dias) == IF diferencia_dias <= 0 THEN 1 ELSE 0

\* lines 465-473 deciding 'regional' from the states the table lists under
\* Centro instead of from the looked-up region
TipoDistancia_SegunTabla(estado_cliente, region_cliente) ==
    IF estado_cliente = "Ciudad de México" THEN "local"
    ELSE IF estado_cliente \in Rango(regiones["Centro"]) THEN "regional"
    ELSE "nacional"

\* lines 465-473: distance class of generate_dataset
TipoDistancia(estado_cliente, region_cliente) ==
    IF estado_cliente = "Ciudad de México" THEN "local"
    ELSE IF region_cliente = "Centro" THEN "regional"
    ELSE "nacional"

\* lines 466, 469, 472: randint(lo, hi) as lo plus u_dist percent of the range
DistanciaKm(tipo_distancia, u_dist) ==
    LET lo == IF tipo_distancia = "local" THEN 0
              ELSE IF tipo_distancia = "regional" THEN 50 ELSE 300
        hi == IF tipo_distancia = "local" THEN 50
              ELSE IF tipo_distancia = "regional" THEN 300 ELSE 1500
    IN  lo + ((hi - lo) * u_dist) \div 100

\* lines 492-496
DiasPrometidos(transportista, tipo_distancia, es_express) ==
    LET dias_prometidos_base == tiempos_base[transportista][tipo_distancia]
    IN  IF es_express THEN Max(1, dias_prometidos_base - 2)
        ELSE dias_prometidos_base

\* body of the loop of generate_dataset (lines 441-594): the record of index
\* idx built from the draws d
Registro(idx, d) ==
    LET order_id == "ECOMMX-2024-" \o Pad5(idx)
        customer_id == "CUST-" \o ToString(d.f_cust)
        datos_cliente == GenerarDatosCliente(d)
        estado_cliente == d.estado
        region_cliente == GetRegionFromEstado(estado_cliente)
        categoria == d.categoria
        datos_producto == GenerarDatosProducto(categoria, d)
        transportista == d.transportista
        es_express == d.u_express < 15
        fechas == GenerarFechasRealistas(transportista, estado_cliente, d)
        tipo_distancia == TipoDistancia(estado_cliente, region_cliente)
        costo_envio == CalcularCostoEnvio(transportista,
                           datos_producto.product_weight_kg, tipo_distancia,
                           es_express, d.variacion)
        monto_total == datos_producto.product_price_mxn * datos_producto.quantity
                          + costo_envio
        datos_pago == GenerarDatosPago(d)
        canal_venta == d.canal
        dias_prometidos == DiasPrometidos(transportista, tipo_distancia, es_express)
        dias_reales == fechas.delivered_date - fechas.shipped_date
        diferencia_dias == dias_reales - dias_prometidos
        calificacion == Calificacion(diferencia_dias, d.jitter)
    IN  [ order_id |-> order_id,
          customer_id |-> customer_id,
          order_date |-> fechas.order_date,
          shipped_date |-> fechas.shipped_date,
          delivered_date |-> fechas.delivered_date,
          processing_days |-> fechas.processing_days,
          delivery_days |-> fechas.delivery_days,
          promised_delivery_days |-> dias_prometidos,
          actual_delivery_days |-> dias_reales,
          delivery_delay_days |-> diferencia_dias,
          delivery_met_promise |-> CumplioPromesa(diferencia_dias),
          product_category |-> categoria,
          product_price_mxn |-> datos_producto.product_price_mxn,
          product_weight_kg |-> datos_producto.product_weight_kg,
          quantity |-> datos_producto.quantity,
          total_amount_mxn |-> monto_total,
          shipping_carrier |-> transportista,
          shipping_tier |-> IF es_express THEN "Express" ELSE "Estándar",
          shipping_cost_mxn |-> costo_envio,
          distance_km |-> DistanciaKm(tipo_distancia, d.u_dist),
          shipping_type |-> tipo_distancia,
          customer_state |-> estado_cliente,
          customer_region |-> region_cliente,
          customer_age_group |-> datos_cliente.customer_age_group,
          customer_loyalty_months |-> datos_cliente.customer_loyalty_months,
          purchase_frequency |-> datos_cliente.purchase_frequency,
          is_urban |-> IF d.u_urbano < 75 THEN 1 ELSE 0,
          payment_method |-> datos_pago.payment_method,
          transaction_status |-> datos_pago.transaction_status,
          payment_installments |-> datos_pago.payment_installments,
          sales_channel |-> IF canal_venta # "Sitio Web Propio"
                            THEN "Marketplace" ELSE "D2C",
          platform_name |-> canal_venta,
          is_peak_season |-> IF EsTemporadaAlta(fechas.order_date) THEN 1 ELSE 0,
          customer_delivery_rating |-> calificacion,
          delivery_issue |-> d.problema,
          shipping_cost_to_price_ratio |->
              RoundHalfEven(costo_envio * 10000, datos_producto.product_price_mxn),
          is_frequent_customer |->
              IF datos_cliente.purchase_frequency > 3 THEN 1 ELSE 0,
          is_loyal_customer |->
              IF datos_cliente.customer_loyalty_months > 12 THEN 1 ELSE 0,
          high_value_order |-> IF monto_total > 500000 THEN 1 ELSE 0 ]

----------------------------------------------------------------------------
(* String conversions used by the injector                                  *)

\* str.lower() of each name of estados_mexico, position by position
estados_minusculas ==
    <<
       "aguascalientes",
       "baja california",
       "baja california sur",
       "campeche",
       "chiapas",
       "chihuahua",
       "coahuila",
       "colima",
       "ciudad de méxico",
       "durango",
       "guanajuato",
       "guerrero",
       "hidalgo",
       "jalisco",
       "méxico",
       "michoacán",
       "morelos",
       "nayarit",
       "nuevo león",
       "oaxaca",
       "puebla",
       "querétaro",
       "quintana roo",
       "san luis potosí",
       "sinaloa",
       "sonora",
       "tabasco",
       "tamaulipas",
       "tlaxcala",
       "veracruz",
       "yucatán",
       "zacatecas" >>

\* str(x).lower(): the table above for the state names; a string that is
\* already lower case is left as it is.
Lower(s) ==
    IF \E k \in 1..Len(estados_mexico) : estados_mexico[k] = s
    THEN estados_minusculas[CHOOSE k \in 1..Len(estados_mexico) : estados_mexico[k] = s]
    ELSE s

\* order_id.startswith("DUPE-")
EmpiezaConDUPE(id) == Len(id) >= 5 /\ SubSeq(id, 1, 5) = "DUPE-"

----------------------------------------------------------------------------
(* The random draws of one record                                           *)

\* numpy draws made before the branch on es_temporada_alta (line 187)
NumpyPre(d) ==
    [ edad |-> d.edad, lealtad |-> d.lealtad, frecuencia |-> d.frecuencia,
      estado |-> d.estado, categoria |-> d.categoria, u_precio |-> d.u_precio,
      u_peso |-> d.u_peso, u_cant |-> d.u_cant, r_cant |-> d.r_cant,
      transportista |-> d.transportista, u_express |-> d.u_express,
      proc |-> d.proc, variabilidad |-> d.variabilidad ]

\* numpy draws made from that branch on
NumpyPost(d) ==
    [ impacto |-> d.impacto, ajuste |-> d.ajuste, u_dist |-> d.u_dist,
      variacion |-> d.variacion, metodo |-> d.metodo,
      u_status1 |-> d.u_status1, u_status2 |-> d.u_status2, msi |-> d.msi,
      canal |-> d.canal, jitter |-> d.jitter, problema |-> d.problema,
      u_urbano |-> d.u_urbano ]

\* What np.random.seed(seed) fixes: an execution with the seed of the previous
\* one reads the same stream, so while both have made the same calls the draws
\* of record number k (0-based) are those of the previous execution.
Alineado(previa_, seed_, corrida_, en_fase_, k) ==
    /\ corrida_ = 2
    /\ en_fase_
    /\ previa_.seed = seed_
    /\ k < Len(previa_.np_log)

DrawsPermitidos(d, alta, previa_, seed_, corrida_, en_fase_, k) ==
    Alineado(previa_, seed_, corrida_, en_fase_, k) =>
        /\ NumpyPre(d) = previa_.np_log[k + 1].pre
        /\ (alta = previa_.np_log[k + 1].alta
               => NumpyPost(d) = previa_.np_log[k + 1].post)

----------------------------------------------------------------------------
(* Draw domains.  A profile gives, for the record of index idx, the set each *)
(* random draw of the loop body is taken from.                               *)

PerfilBase ==
    [ f_cust |-> {14321}, f_offset |-> {30},
      edad |-> {"25-34"}, lealtad |-> {85}, frecuencia |-> {2},
      estado |-> {"Jalisco"}, categoria |-> {"Deportes"},
      u_precio |-> {40}, u_peso |-> {50}, u_cant |-> {10}, r_cant |-> {1},
      transportista |-> {"Estafeta"}, u_express |-> {50}, proc |-> {1},
      variabilidad |-> {0}, impacto |-> {15}, ajuste |-> {0}, u_dist |-> {50},
      variacion |-> {100}, metodo |-> {"Tarjeta de Débito"},
      u_status1 |-> {10}, u_status2 |-> {50}, msi |-> {3},
      canal |-> {"Mercado Libre"}, jitter |-> {0}, problema |-> {"Ninguno"},
      u_urbano |-> {10} ]

\* every state, carrier and service tier, peak and off-peak order dates, and the
\* timing and rating draws around their rounding and clamping points
PerfilTiempos(idx) ==
    [ PerfilBase EXCEPT
        !.estado = Rango(estados_mexico),
        !.transportista = Rango(nombres_transportistas),
        !.u_express = {10, 50},
        !.f_offset = {0, 30},
        !.proc = Rango(dias_procesamiento_opciones),
        !.variabilidad = {0 - 10, 0, 5},
        !.impacto = {12, 20},
        !.ajuste = {0 - 1, 0, 1},
        !.jitter = {0 - 1, 0, 1} ]

\* one fixed outcome per row, different from row to row
PerfilFijo(idx) ==
    [ PerfilBase EXCEPT
        !.f_cust = {10000 + 37 * idx},
        !.f_offset = {(idx * 11) % 366},
        !.edad = {grupos_edad[(idx % 5) + 1]},
        !.lealtad = {(idx * 53) % 700},
        !.frecuencia = {idx % 6},
        !.estado = {estados_mexico[((idx * 3 + 8) % 32) + 1]},
        !.categoria = {nombres_categorias[(idx % 7) + 1]},
        !.u_precio = {(idx * 17) % 100},
        !.transportista = {nombres_transportistas[((idx * 3) % 7) + 1]},
        !.u_express = {(idx * 7) % 100},
        !.proc = {(idx % 3) + 1},
        !.ajuste = {(idx % 3) - 1},
        !.metodo = {metodos_pago[(idx % 5) + 1]},
        !.canal = {canales_venta[(idx % 6) + 1]} ]

\* every payment method, the status draws on both sides of 0.67 and 0.8, and
\* every installment option
PerfilPago(idx) ==
    [ PerfilBase EXCEPT
        !.metodo = Rango(metodos_pago),
        !.u_status1 = {10, 66, 67, 90},
        !.u_status2 = {50, 79, 80, 95},
        !.msi = Rango(msi_opciones) ]

\* two outcomes of each Faker draw and of some numpy draws
PerfilDet(idx) ==
    [ PerfilBase EXCEPT
        !.f_cust = {10001, 10002},
        !.f_offset = {0, 30},
        !.estado = {"Ciudad de México", "Jalisco"},
        !.impacto = {12, 20},
        !.jitter = {0 - 1, 0} ]

----------------------------------------------------------------------------
(* generate_dataset                                                          *)

\* One iteration of the loop of generate_dataset (lines 441-600).
GenerarRegistro(Perfil(_)) ==
    /\ pc = "generar"
    /\ i < n_records
    /\ LET P == Perfil(i)
       IN  \E f_cust \in P.f_cust, f_offset \in P.f_offset, edad \in P.edad,
              lealtad \in P.lealtad, frecuencia \in P.frecuencia,
              estado \in P.estado, categoria \in P.categoria,
              u_precio \in P.u_precio, u_peso \in P.u_peso, u_cant \in P.u_cant,
              r_cant \in P.r_cant, transportista \in P.transportista,
              u_express \in P.u_express, proc \in P.proc,
              variabilidad \in P.variabilidad, ajuste \in P.ajuste,
              u_dist \in P.u_dist, variacion \in P.variacion,
              metodo \in P.metodo, u_status1 \in P.u_status1,
              canal \in P.canal, jitter \in P.jitter, problema \in P.problema,
              u_urbano \in P.u_urbano :
             LET alta == EsTemporadaAlta(hoy - f_offset)
             IN  \E impacto \in (IF alta THEN P.impacto ELSE {10}),
                    u_status2 \in (IF u_status1 < 67 THEN {0} ELSE P.u_status2),
                    msi \in P.msi :
                   LET d == [ f_cust |-> f_cust, f_fecha |-> hoy - f_offset,
                              edad |-> edad, lealtad |-> lealtad,
                              frecuencia |-> frecuencia, estado |-> estado,
                              categoria |-> categoria, u_precio |-> u_precio,
                              u_peso |-> u_peso, u_cant |-> u_cant,
                              r_cant |-> r_cant, transportista |-> transportista,
                              u_express |-> u_express, proc |-> proc,
                              variabilidad |-> variabilidad, impacto |-> impacto,
                              ajuste |-> ajuste, u_dist |-> u_dist,
                              variacion |-> variacion, metodo |-> metodo,
                              u_status1 |-> u_status1, u_status2 |-> u_status2,
                              msi |-> msi, canal |-> canal, jitter |-> jitter,
                              problema |-> problema, u_urbano |-> u_urbano ]
                   IN  /\ DrawsPermitidos(d, alta, previa, seed, corrida, en_fase, i)
                       /\ datos' = Append(datos, Registro(i, d))
                       /\ np_log' = Append(np_log, [ pre |-> NumpyPre(d),
                                                     alta |-> alta,
                                                     post |-> NumpyPost(d) ])
                       /\ en_fase' =
                            IF Alineado(previa, seed, corrida, en_fase, i)
                            THEN alta = previa.np_log[i + 1].alta
                            ELSE en_fase
    /\ i' = i + 1
    /\ UNCHANGED <<pc, corrida, seed, n_records, include_errors, hoy, df,
                   df_con_errores, indices_errores, pos, tipos, dataset,
                   archivo, muestra, muestra_escrita, previa>>

\* lines 603-611 with include_errors false: the DataFrame is returned as built
CrearDataFrame ==
    /\ pc = "generar"
    /\ i = n_records
    /\ df' = datos
    /\ IF include_errors
       THEN pc' = "errores" /\ dataset' = dataset
       ELSE pc' = "listo" /\ dataset' = datos
    /\ UNCHANGED <<corrida, seed, n_records, include_errors, hoy, i, datos,
                   df_con_errores, indices_errores, pos, tipos, archivo,
                   muestra, muestra_escrita, np_log, en_fase, previa>>

----------------------------------------------------------------------------
(* _agregar_errores_controlados                                              *)

\* largest row label the index selection of the model may pick
MaxIdx == 3

\* round(len(df) * porcentaje) in place of int(...)
NErrores_Redondeado(n) == RoundHalfEven(n * 5, 100)

\* int(len(df) * porcentaje) with porcentaje = 0.05 (lines 370, 608)
NErrores(n) == (n * 5) \div 100

\* outcomes of np.random.choice(df.index, n_errores, replace=False): the
\* sequences of n distinct labels, here among the labels up to MaxIdx
Selecciones(n, filas) ==
    LET etiquetas == 0..Min(filas - 1, MaxIdx)
    IN  { sel \in [1..n -> etiquetas] :
            \A a, b \in 1..n : a # b => sel[a] # sel[b] }

columnas_missing ==
    << "product_price_mxn", "shipping_cost_mxn", "customer_loyalty_months",
       "distance_km" >>

tipos_error == << "missing", "outlier", "typo", "duplicate", "inconsistent" >>

\* float(x) * 100, NaN stays NaN
Por100(x) == IF x = NaN THEN NaN ELSE x * 100

\* lines 376-380
ErrorMissing(t, idx, columna) ==
    [t EXCEPT ![idx + 1][columna] = NaN]

\* lines 382-389; u is the uniform draw in 1/100, km the randint(5000, 10000)
ErrorOutlier(t, idx, u, km) ==
    IF u > 50
    THEN [t EXCEPT ![idx + 1].product_price_mxn = Por100(@)]
    ELSE [t EXCEPT ![idx + 1].distance_km = km]

\* lines 391-398
ErrorTypo(t, idx, u) ==
    IF u > 50
    THEN [t EXCEPT ![idx + 1].shipping_carrier = " " \o @]
    ELSE [t EXCEPT ![idx + 1].customer_state = Lower(@)]

\* lines 400-406 with the copy written over the previous row
ErrorDuplicate_EnAnterior(t, idx) ==
    IF idx > 0
    THEN LET copiada == [t EXCEPT ![idx] = t[idx + 1]]
             original_id == copiada[idx + 1].order_id
         IN  [copiada EXCEPT ![idx + 1].order_id = "DUPE-" \o original_id]
    ELSE t

\* lines 400-406 without the copy of line 403
ErrorDuplicate_SoloId(t, idx) ==
    IF idx > 0
    THEN [t EXCEPT ![idx + 1].order_id = "DUPE-" \o t[idx + 1].order_id]
    ELSE t

\* lines 400-406 without the new id of lines 405-406
ErrorDuplicate_SinPrefijo(t, idx) ==
    IF idx > 0
    THEN [t EXCEPT ![idx + 1] = t[idx]]
    ELSE t

\* lines 400-406: the row is overwritten with the previous row, then the id
\* read back from the overwritten row gets the prefix
ErrorDuplicate(t, idx) ==
    IF idx > 0
    THEN LET copiada == [t EXCEPT ![idx + 1] = t[idx]]
             original_id == copiada[idx + 1].order_id
         IN  [copiada EXCEPT ![idx + 1].order_id = "DUPE-" \o original_id]
    ELSE t

\* lines 408-419
ErrorInconsistent(t, idx, u) ==
    IF u > 50
    THEN [t EXCEPT ![idx + 1].delivered_date = t[idx + 1].shipped_date - 2]
    ELSE [t EXCEPT ![idx + 1].shipped_date = t[idx + 1].order_date - 1]

\* lines 369-371: copy of the table, number of errors, index selection
SeleccionarErrores ==
    /\ pc = "errores"
    /\ df_con_errores' = df
    /\ \E sel \in Selecciones(NErrores(Len(df)), Len(df)) :
          indices_errores' = sel
    /\ pos' = 1
    /\ tipos' = << >>
    /\ pc' = "inyectar"
    /\ UNCHANGED <<corrida, seed, n_records, include_errors, hoy, i, datos, df,
                   dataset, archivo, muestra, muestra_escrita, np_log, en_fase,
                   previa>>

\* the loop of lines 373-419 writing through to the table that was passed in
\* (line 369 binding the same object instead of a copy)
InyectarError_EnLugar ==
    /\ pc = "inyectar"
    /\ pos <= Len(indices_errores)
    /\ LET idx == indices_errores[pos]
       IN  \E tipo_error \in Rango(tipos_error) :
             /\ tipos' = Append(tipos, tipo_error)
             /\ \/ /\ tipo_error = "missing"
                   /\ \E columna \in Rango(columnas_missing) :
                        df_con_errores' = ErrorMissing(df_con_errores, idx, columna)
                \/ /\ tipo_error = "outlier"
                   /\ \E u \in {25, 75} :
                        \E km \in (IF u > 50 THEN {5000} ELSE {5000, 9999}) :
                          df_con_errores' = ErrorOutlier(df_con_errores, idx, u, km)
                \/ /\ tipo_error = "typo"
                   /\ \E u \in {25, 75} :
                        df_con_errores' = ErrorTypo(df_con_errores, idx, u)
                \/ /\ tipo_error = "duplicate"
                   /\ df_con_errores' = ErrorDuplicate(df_con_errores, idx)
                \/ /\ tipo_error = "inconsistent"
                   /\ \E u \in {25, 75} :
                        df_con_errores' = ErrorInconsistent(df_con_errores, idx, u)
    /\ df' = df_con_errores'
    /\ pos' = pos + 1
    /\ UNCHANGED <<pc, corrida, seed, n_records, include_errors, hoy, i, datos,
                   indices_errores, dataset, archivo, muestra,
                   muestra_escrita, np_log, en_fase, previa>>

\* one iteration of the loop over indices_errores (lines 373-419)
InyectarError ==
    /\ pc = "inyectar"
    /\ pos <= Len(indices_errores)
    /\ LET idx == indices_errores[pos]
       IN  \E tipo_error \in Rango(tipos_error) :
             /\ tipos' = Append(tipos, tipo_error)
             /\ \/ /\ tipo_error = "missing"
                   /\ \E columna \in Rango(columnas_missing) :
                        df_con_errores' = ErrorMissing(df_con_errores, idx, columna)
                \/ /\ tipo_error = "outlier"
                   /\ \E u \in {25, 75} :
                        \E km \in (IF u > 50 THEN {5000} ELSE {5000, 9999}) :
                          df_con_errores' = ErrorOutlier(df_con_errores, idx, u, km)
                \/ /\ tipo_error = "typo"
                   /\ \E u \in {25, 75} :
                        df_con_errores' = ErrorTypo(df_con_errores, idx, u)
                \/ /\ tipo_error = "duplicate"
                   /\ df_con_errores' = ErrorDuplicate(df_con_errores, idx)
                \/ /\ tipo_error = "inconsistent"
                   /\ \E u \in {25, 75} :
                        df_con_errores' = ErrorInconsistent(df_con_errores, idx, u)
    /\ pos' = pos + 1
    /\ UNCHANGED <<pc, corrida, seed, n_records, include_errors, hoy, i, datos,
                   df, indices_errores, dataset, archivo, muestra,
                   muestra_escrita, np_log, en_fase, previa>>

\* line 421 and line 608: the copy is returned and becomes generate_dataset's result
RetornarErrores ==
    /\ pc = "inyectar"
    /\ pos > Len(indices_errores)
    /\ dataset' = df_con_errores
    /\ pc' = "listo"
    /\ UNCHANGED <<corrida, seed, n_records, include_errors, hoy, i, datos, df,
                   df_con_errores, indices_errores, pos, tipos, archivo,
                   muestra, muestra_escrita, np_log, en_fase, previa>>

----------------------------------------------------------------------------
(* main                                                                      *)

\* save_dataset (lines 613-625)
SaveDataset ==
    /\ pc = "listo"
    /\ archivo' = dataset
    /\ pc' = "guardado"
    /\ UNCHANGED <<corrida, seed, n_records, include_errors, hoy, i, datos, df,
                   df_con_errores, indices_errores, pos, tipos, dataset,
                   muestra, muestra_escrita, np_log, en_fase, previa>>

\* a sample is written for a table of more than this many rows (line 694)
UmbralMuestra == 1000

\* rows of the sample (line 695)
TamanoMuestra == 1000

\* the subsets of S with k elements (built from the smaller side: the sets of
\* k elements, or the complements of the sets of |S| - k elements)
Subconjuntos(S, k) ==
    LET n == Cardinality(S)
        j == IF 2 * k > n THEN n - k ELSE k
        P[m \in 0..j] ==
          IF m = 0 THEN { {} }
          ELSE UNION { { T \cup {x} : x \in S \ T } : T \in P[m - 1] }
    IN  IF k > n THEN {}
        ELSE IF 2 * k > n THEN { S \ T : T \in P[j] }
        ELSE P[j]

\* df.sample keeps the labels of the rows it draws: the rows of t by label
Filas(t, etiquetas) == [ e \in etiquetas |-> t[e + 1] ]

\* lines 693-698: the sample is drawn and written only for a table of more
\* than 1000 rows
CrearMuestra ==
    /\ pc = "guardado"
    /\ IF Len(dataset) > UmbralMuestra
       THEN /\ \E etiquetas \in Subconjuntos(0..(Len(dataset) - 1), TamanoMuestra) :
                 muestra' = Filas(dataset, etiquetas)
            /\ muestra_escrita' = TRUE
       ELSE UNCHANGED <<muestra, muestra_escrita>>
    /\ pc' = "fin"
    /\ UNCHANGED <<corrida, seed, n_records, include_errors, hoy, i, datos, df,
                   df_con_errores, indices_errores, pos, tipos, dataset,
                   archivo, np_log, en_fase, previa>>

\* A second execution of the program: a new process, a new generator built
\* with its own seed and arguments, a later wall clock.
SegundaEjecucion(Ns, Incs, Hoys, Seeds) ==
    /\ pc = "fin"
    /\ corrida = 1
    /\ previa' = [ seed |-> seed, n_records |-> n_records,
                   include_errors |-> include_errors, np_log |-> np_log,
                   tabla |-> dataset ]
    /\ corrida' = 2
    /\ seed' \in Seeds
    /\ n_records' \in Ns
    /\ include_errors' \in Incs
    /\ hoy' \in { h \in Hoys : h >= hoy }
    /\ pc' = "generar"
    /\ i' = 0
    /\ datos' = << >>
    /\ df' = << >>
    /\ df_con_errores' = << >>
    /\ indices_errores' = << >>
    /\ pos' = 1
    /\ tipos' = << >>
    /\ dataset' = << >>
    /\ np_log' = << >>
    /\ en_fase' = TRUE
    /\ UNCHANGED <<archivo, muestra, muestra_escrita>>

----------------------------------------------------------------------------
(* Specifications                                                            *)

PreviaNinguna ==
    [ seed |-> 0 - 1, n_records |-> 0, include_errors |-> FALSE,
      np_log |-> << >>, tabla |-> << >> ]

\* the state after MexicoEcommerceGenerator(seed, n_records) is constructed
\* (lines 42-59) and before generate_dataset(include_errors) runs
InitCon(Ns, Incs, Hoys, Seeds) ==
    /\ pc = "generar"
    /\ corrida = 1
    /\ seed \in Seeds
    /\ n_records \in Ns
    /\ include_errors \in Incs
    /\ hoy \in Hoys
    /\ i = 0
    /\ datos = << >>
    /\ df = << >>
    /\ df_con_errores = << >>
    /\ indices_errores = << >>
    /\ pos = 1
    /\ tipos = << >>
    /\ dataset = << >>
    /\ archivo = << >>
    /\ muestra = << >>
    /\ muestra_escrita = FALSE
    /\ np_log = << >>
    /\ en_fase = TRUE
    /\ previa = PreviaNinguna

\* the wall clock of the executions: 2026-11-05 and the day after
Hoy1 == 673

\* Record synthesis: one record, every state, carrier, tier and timing draw.
Init == InitCon({0, 1}, {FALSE}, {Hoy1}, {42})

Next ==
    \/ GenerarRegistro(PerfilTiempos)
    \/ CrearDataFrame

Spec == Init /\ [][Next]_vars

\* Error injection: tables of 19 to 40 fixed rows, every selection among the
\* first rows and every defect.
InitErr == InitCon({19, 20, 30, 40}, {TRUE}, {Hoy1}, {42})

NextErr ==
    \/ GenerarRegistro(PerfilFijo)
    \/ CrearDataFrame
    \/ SeleccionarErrores
    \/ InyectarError
    \/ RetornarErrores
    \/ SaveDataset
    \/ CrearMuestra

SpecErr == InitErr /\ [][NextErr]_vars

\* Payment data: one record, every method, status and installment draw.
InitPago == InitCon({0, 1}, {FALSE}, {Hoy1}, {42})

NextPago ==
    \/ GenerarRegistro(PerfilPago)
    \/ CrearDataFrame

SpecPago == InitPago /\ [][NextPago]_vars

\* main on tables around the sample threshold, without the injection pass.
InitMuestra == InitCon({999, 1000, 1001}, {FALSE}, {Hoy1}, {42})

NextMuestra ==
    \/ GenerarRegistro(PerfilFijo)
    \/ CrearDataFrame
    \/ SaveDataset
    \/ CrearMuestra

SpecMuestra == InitMuestra /\ [][NextMuestra]_vars

\* Two executions of the program, the second with any seed and arguments, on
\* the same day or the day after.
Hoy2 == Hoy1 + 1

InitDet == InitCon({1}, BOOLEAN, {Hoy1, Hoy2}, {42, 7})

NextDet ==
    \/ GenerarRegistro(PerfilDet)
    \/ CrearDataFrame
    \/ SeleccionarErrores
    \/ RetornarErrores
    \/ SaveDataset
    \/ CrearMuestra
    \/ SegundaEjecucion({1}, BOOLEAN, {Hoy1, Hoy2}, {42, 7})

SpecDet == InitDet /\ [][NextDet]_vars

----------------------------------------------------------------------------
(* Properties of the generated records (specification Spec)                  *)

Abs(x) == IF x < 0 THEN 0 - x ELSE x

\* C1: every record built by generate_dataset has
\* order_date <= shipped_date <= delivered_date, whatever the processing days,
\* the transit time and the +/-1 day adjustment are.
C1_FechasOrdenadas ==
    \A k \in 1..Len(datos) :
        /\ datos[k].order_date <= datos[k].shipped_date
        /\ datos[k].shipped_date <= datos[k].delivered_date

\* C1 witness: a record whose adjusted delivery days fell to 0 after three
\* processing days.
C1_Testigo ==
    /\ Len(datos) = 1
    /\ datos[1].processing_days = 3
    /\ datos[1].delivery_days = 0
    /\ datos[1].delivered_date = datos[1].shipped_date + 1

\* C2: in every record delivery_delay_days = actual_delivery_days -
\* promised_delivery_days, actual_delivery_days is delivered_date - shipped_date
\* in whole days, and delivery_met_promise is 1 exactly when the delay is <= 0
\* (0 otherwise).
C2_DerivadosConsistentes ==
    \A k \in 1..Len(datos) :
        /\ datos[k].delivery_delay_days
             = datos[k].actual_delivery_days - datos[k].promised_delivery_days
        /\ datos[k].actual_delivery_days
             = datos[k].delivered_date - datos[k].shipped_date
        /\ datos[k].delivery_met_promise \in {0, 1}
        /\ (datos[k].delivery_met_promise = 1) <=> (datos[k].delivery_delay_days <= 0)

\* C2 witness: an express record delivered exactly on the promised day.
C2_Testigo ==
    /\ Len(datos) = 1
    /\ datos[1].shipping_tier = "Express"
    /\ datos[1].delivery_delay_days = 0
    /\ datos[1].delivery_met_promise = 1

\* C3 (as claimed): the region table partitions the state list, so in every
\* record customer_state is listed by exactly one region and customer_region is
\* that region (the default of the lookup is never taken).
C3_RegionesParticion ==
    \A k \in 1..Len(datos) :
        /\ Cardinality({ r \in DOMAIN regiones :
                           datos[k].customer_state \in Rango(regiones[r]) }) = 1
        /\ datos[k].customer_state \in Rango(regiones[datos[k].customer_region])

\* C10: in every record customer_delivery_rating is an integer of 1..5 at most
\* 1 away from the step-function base of the delay (<= 0: 5, <= 2: 4, <= 5: 3,
\* <= 10: 2, else 1).
C10_CalificacionAcotada ==
    \A k \in 1..Len(datos) :
        LET delay == datos[k].delivery_delay_days
            base == IF delay <= 0 THEN 5
                    ELSE IF delay <= 2 THEN 4
                    ELSE IF delay <= 5 THEN 3
                    ELSE IF delay <= 10 THEN 2
                    ELSE 1
        IN  /\ datos[k].customer_delivery_rating \in 1..5
            /\ Abs(datos[k].customer_delivery_rating - base) <= 1

\* C10 witness: an on-time record whose jitter was +1, the rating clamped to 5.
C10_Testigo ==
    /\ Len(datos) = 1
    /\ datos[1].delivery_delay_days <= 0
    /\ np_log[1].post.jitter = 1
    /\ datos[1].customer_delivery_rating = 5

\* C12 (as claimed): the delivery days are floored at 1 again after the +/-1
\* day adjustment, so in every record delivery_days >= 1, delivered_date is
\* shipped_date + delivery_days and delivery_days equals actual_delivery_days.
C12_DiasEntregaConPiso ==
    \A k \in 1..Len(datos) :
        /\ datos[k].delivery_days >= 1
        /\ datos[k].delivered_date = datos[k].shipped_date + datos[k].delivery_days
        /\ datos[k].delivery_days = datos[k].actual_delivery_days

\* the regions of the region table that list the state
RegionesQueListan(estado) ==
    { r \in DOMAIN regiones : estado \in Rango(regiones[r]) }

\* C14 (as claimed): for every destination state of the state list the
\* recorded shipping_type is local exactly when the state is the origin state,
\* regional exactly when it is another state listed in the origin's region of
\* the region table, and nacional exactly when it is listed in a different
\* region than the origin.
C14_TipoPorRegion ==
    \A k \in 1..Len(datos) :
        LET origen == "Ciudad de México"
            estado == datos[k].customer_state
            tipo == datos[k].shipping_type
        IN  /\ tipo = "local" <=> estado = origen
            /\ tipo = "regional" <=>
                  /\ estado # origen
                  /\ RegionesQueListan(estado) \cap RegionesQueListan(origen) # {}
            /\ tipo = "nacional" <=>
                  /\ RegionesQueListan(estado) # {}
                  /\ RegionesQueListan(estado) \cap RegionesQueListan(origen) = {}

\* C16: the distance class computed inside _calcular_tiempo_entrega from the
\* origin and the destination state is the class generate_dataset records as
\* shipping_type, for every destination state of the state list, those that
\* reach the default region included; so promised_delivery_days comes from the
\* entry of tiempos_base that the transit time started from, and a record
\* ordered off season with no variability and no adjustment has
\* actual_delivery_days equal to that entry.
C16_MismoTipo ==
    \A k \in 1..Len(datos) :
        LET r == datos[k]
            tipo_envio == TipoEnvio("Ciudad de México", r.customer_state)
            tiempo_base == tiempos_base[r.shipping_carrier][tipo_envio]
        IN  /\ tipo_envio = r.shipping_type
            /\ r.promised_delivery_days
                 = IF r.shipping_tier = "Express" THEN Max(1, tiempo_base - 2)
                   ELSE tiempo_base
            /\ ( /\ ~np_log[k].alta
                 /\ np_log[k].pre.variabilidad = 0
                 /\ np_log[k].post.ajuste = 0 )
               => r.actual_delivery_days
                    = tiempos_base[r.shipping_carrier][r.shipping_type]

\* C16 witness: a standard off-season order to Zacatecas, a state of the
\* default region, recorded as regional and delivered in the regional base
\* time it was promised in.
C16_Testigo ==
    /\ Len(datos) = 1
    /\ datos[1].customer_state = "Zacatecas"
    /\ RegionesQueListan("Zacatecas") = {}
    /\ datos[1].shipping_type = "regional"
    /\ datos[1].shipping_tier = "Estándar"
    /\ ~np_log[1].alta
    /\ np_log[1].pre.variabilidad = 0
    /\ np_log[1].post.ajuste = 0
    /\ datos[1].actual_delivery_days = datos[1].promised_delivery_days

----------------------------------------------------------------------------
(* Properties of the payment data (specification SpecPago)                   *)

\* C15: in every record payment_installments is one of 1, 3, 6, 12, 18, and it
\* differs from 1 only when payment_method is the credit card and
\* transaction_status is the authorized status; for every other method or
\* status it is exactly 1.
C15_MesesSinIntereses ==
    \A k \in 1..Len(datos) :
        /\ datos[k].payment_installments \in {1, 3, 6, 12, 18}
        /\ datos[k].payment_installments # 1 =>
              /\ datos[k].payment_method = "Tarjeta de Crédito"
              /\ datos[k].transaction_status = "Autorizada"
        /\ ( datos[k].payment_method # "Tarjeta de Crédito"
               \/ datos[k].transaction_status # "Autorizada" )
             => datos[k].payment_installments = 1

\* C15 witness: a credit-card payment that was rejected while the installment
\* choice would have returned 18, recorded with 1 installment.
C15_Testigo ==
    /\ Len(datos) = 1
    /\ datos[1].payment_method = "Tarjeta de Crédito"
    /\ datos[1].transaction_status = "Rechazada"
    /\ np_log[1].post.msi = 18
    /\ datos[1].payment_installments = 1

----------------------------------------------------------------------------
(* Properties of the error injection and of main (specification SpecErr)     *)

\* the injector has returned
Inyectado == pc \in {"listo", "guardado", "fin"}

\* rows (1-based) of table t that differ from the clean table df
Alteradas(t) == { k \in 1..Len(df) : t[k] # df[k] }

\* the loop drew the duplicate defect for row label 0
DuplicateEnFila0 ==
    \E p \in 1..Len(tipos) : indices_errores[p] = 0 /\ tipos[p] = "duplicate"

\* C5 (as claimed): after the pass over a clean table of N rows exactly
\* round(N x 0.05) rows differ from their clean version.
C5_Original ==
    Inyectado => Cardinality(Alteradas(dataset)) = RoundHalfEven(n_records * 5, 100)

\* C5 (amended): int(N x 0.05) rows are selected (the product truncated, not
\* rounded) and every selected row differs from its clean version, except row 0
\* when it draws the duplicate defect, which leaves it as it was: the number of
\* altered rows is int(N x 0.05), or one less in that case.
C5_Cobertura ==
    Inyectado =>
        /\ Len(indices_errores) = n_records \div 20
        /\ Cardinality(Alteradas(dataset))
             = (n_records \div 20) - (IF DuplicateEnFila0 THEN 1 ELSE 0)
        /\ \A p \in 1..Len(indices_errores) :
             (indices_errores[p] + 1) \in Alteradas(dataset)
               <=> ~(indices_errores[p] = 0 /\ tipos[p] = "duplicate")

\* C5 witness: of the two rows selected in a table of 40, row 0 drew the
\* duplicate defect and only the other row is altered.
C5_Testigo ==
    /\ pc = "fin"
    /\ n_records = 40
    /\ DuplicateEnFila0
    /\ Cardinality(Alteradas(dataset)) = 1

\* the frame of the pass on table t
Marco(t) ==
    /\ Len(t) = Len(df)
    /\ \A k \in 1..Len(t) :
         /\ DOMAIN t[k] = DOMAIN df[k]
         /\ (k - 1) \notin Rango(indices_errores) => t[k] = df[k]

\* C6: during and after the pass the table has the rows and columns of the
\* clean table, and every row whose label was not selected equals its clean
\* version field for field, whatever the selection and the defects drawn.
C6_Marco ==
    /\ pc = "inyectar" => Marco(df_con_errores)
    /\ Inyectado => Marco(dataset)

\* C6 witness: row 2 drew the duplicate defect, row 0 a missing value, and the
\* unselected row 1 between them is as generated.
C6_Testigo ==
    /\ pc = "fin"
    /\ indices_errores = << 2, 0 >>
    /\ tipos = << "duplicate", "missing" >>
    /\ dataset[2] = df[2]
    /\ dataset[3] # df[3]

\* a step of the loop that applies the duplicate defect to a row k > 0
PasoDuplicate ==
    /\ pc = "inyectar"
    /\ pos <= Len(indices_errores)
    /\ pos' = pos + 1
    /\ tipos' = Append(tipos, "duplicate")
    /\ indices_errores[pos] > 0

\* C7: a duplicate defect on row k > 0 leaves row k with an id that begins
\* with "DUPE-" and with every other field equal to what row k-1 held just
\* before; and every row of the returned table whose id begins with "DUPE-"
\* is a row k > 0 that drew the duplicate defect.
C7_Duplicado ==
    /\ [][ PasoDuplicate =>
             LET k == indices_errores[pos]
             IN  /\ EmpiezaConDUPE(df_con_errores'[k + 1].order_id)
                 /\ \A c \in DOMAIN df_con_errores[k] \ {"order_id"} :
                      df_con_errores'[k + 1][c] = df_con_errores[k][c] ]_vars
    /\ [] ( Inyectado =>
              \A k \in 1..Len(dataset) :
                  EmpiezaConDUPE(dataset[k].order_id) =>
                      \E p \in 1..Len(tipos) :
                          /\ indices_errores[p] = k - 1
                          /\ k - 1 > 0
                          /\ tipos[p] = "duplicate" )

\* C7 witness: row 1 then row 2 drew the duplicate defect, so row 2 copied a
\* row that was itself a duplicate.
C7_Testigo ==
    /\ pc = "fin"
    /\ indices_errores = << 1, 2 >>
    /\ tipos = << "duplicate", "duplicate" >>
    /\ dataset[3].order_id = "DUPE-DUPE-ECOMMX-2024-00000"
    /\ dataset[3].customer_id = df[1].customer_id

\* C13 (as claimed): a duplicate defect on row k > 0 gives row k the id
\* "DUPE-" followed by the id row k held before it was overwritten with row
\* k-1; a duplicate defect on row 0 leaves the table unchanged.
C13_IdOriginal ==
    [][ ( /\ pc = "inyectar"
          /\ pos <= Len(indices_errores)
          /\ pos' = pos + 1
          /\ tipos' = Append(tipos, "duplicate") )
        => LET k == indices_errores[pos]
           IN  IF k > 0
               THEN df_con_errores'[k + 1].order_id
                      = "DUPE-" \o df_con_errores[k + 1].order_id
               ELSE df_con_errores' = df_con_errores ]_vars

\* order ids of table t are pairwise distinct
IdsDistintos(t) ==
    \A a, b \in 1..Len(t) : a # b => t[a].order_id # t[b].order_id

\* C8: order ids are pairwise distinct in the generated list, in the table
\* during the injection pass and in the returned table.
C8_IdsUnicos ==
    /\ IdsDistintos(datos)
    /\ pc = "inyectar" => IdsDistintos(df_con_errores)
    /\ Inyectado => IdsDistintos(dataset)

\* C8 witness: row 2 then row 1 drew the duplicate defect; rows 0, 1 and 2
\* carry the ids 00000, DUPE-00000 and DUPE-00001.
C8_Testigo ==
    /\ pc = "fin"
    /\ indices_errores = << 2, 1 >>
    /\ tipos = << "duplicate", "duplicate" >>
    /\ dataset[2].order_id = "DUPE-ECOMMX-2024-00000"
    /\ dataset[3].order_id = "DUPE-ECOMMX-2024-00001"

C11_EnLugar ==
    Inyectado => df = dataset

\* C11 (amended): the injector works on a copy.  During and after the pass the
\* table passed in is still the clean table built from the generated records;
\* the defects are carried only by the copy, which is the table returned, and
\* the copy has the row count and the columns of the table passed in.
C11_Copia ==
    /\ pc = "inyectar" => df = datos
    /\ Inyectado =>
          /\ df = datos
          /\ dataset = df_con_errores
          /\ Len(dataset) = Len(df)
          /\ \A k \in 1..Len(df) : DOMAIN dataset[k] = DOMAIN df[k]

\* C11 witness: the pass altered two rows of the returned table of 40 and the
\* table passed in has none of the defects.
C11_Testigo ==
    /\ pc = "fin"
    /\ n_records = 40
    /\ Cardinality(Alteradas(dataset)) = 2
    /\ df = datos
    /\ dataset # df

----------------------------------------------------------------------------
(* Two executions (specification SpecDet)                                    *)

\* C4 (as claimed): an execution with the seed, n_records and include_errors
\* of the previous one returns the same table.
C4_Determinismo ==
    ( /\ corrida = 2
      /\ Inyectado
      /\ seed = previa.seed
      /\ n_records = previa.n_records
      /\ include_errors = previa.include_errors )
    => dataset = previa.tabla

============================================================================
